---------------------------- MODULE Spec2Model ----------------------------
(***************************************************************************)
(* Download orchestration core of the Flask-SocketIO downloader            *)
(* (src/app1.py, the superset of src/app.py and src/app_compact.py):       *)
(* request validation and dispatch (api_download), the worker pool         *)
(* (EXECUTOR), the job (download_media, download_with_ytdlp,               *)
(* download_with_aria2c), the accelerator adapter (Aria2cDownloader), the  *)
(* throttled reporter (DownloadProgress) and the registry (DownloadStatus).*)
(*                                                                         *)
(* Conventions.  A Python dict is a function whose DOMAIN is the set of    *)
(* keys present, so d.get(k, v) and the KeyError of d[k] are both          *)
(* expressible.  Time is counted in hundredths of a second, percentages    *)
(* in tenths of a percent (99.9 is 999, 100 is 1000).                      *)
(***************************************************************************)
EXTENDS Integers, Sequences, FiniteSets, TLC

\* ------------------------------------------------------------ bounds
\* calls of api_download (accepted or rejected)
MaxSubmits == 2
\* progress callbacks (embedded) or output lines (accelerator) per job
MaxCallbacks == 2
\* files one embedded transfer may consist of
MaxFiles == 2
\* last reading of the monotonic clock
MaxClock == 20
\* last reading of the monotonic clock in the reporter specification
MaxUnitClock == 12
\* largest byte count a progress payload reports
MaxBytes == 1
\* calls of _emit made on the reporter of the reporter specification
MaxCalls == 4
\* threads of EXECUTOR: max_workers is DL_WORKERS, 6 when unset
MAX_WORKERS == 2

\* ------------------------------------------------- program constants
\* PERFORMANCE_CONFIG["progress_throttle"] = 0.1 s
progress_throttle == 10
\* the local throttle of Aria2cDownloader.download, 0.1 s
aria2c_throttle == 10
\* min(99.9, ...) of progress_hook and send_progress
PercentCap == 999
\* "percentage": 100 of the finished payloads
PercentDone == 1000

\* ------------------------------------------------------ dict helpers
Get(d, k, default) == IF k \in DOMAIN d THEN d[k] ELSE default

Put(d, k, v) == [x \in DOMAIN d \cup {k} |-> IF x = k THEN v ELSE d[x]]

\* Python truthiness of the values a request field may hold
None == "<None>"

Truthy(v) == v # None /\ v # ""

Min(a, b) == IF a <= b THEN a ELSE b

\* ------------------------------------------------------------ inputs
ValidUrl == "https://example.com/v"

\* str.strip() on the URLs of the model
Strip(u) == IF u = "  " THEN "" ELSE u

\* urlparse(url).scheme and .netloc for the URLs of the model
UrlScheme(u) == IF u \in {"https://example.com/v", "https:///v"} THEN "https" ELSE ""

UrlNetloc(u) == IF u = "https://example.com/v" THEN "example.com" ELSE ""

\* the JSON body with the given keys; a key whose value is None is left out
MkData(u, t, s, dl, af, vf) ==
    LET val == [url |-> u, type |-> t, session_id |-> s, downloader |-> dl,
                audio_format |-> af, video_format |-> vf]
    IN  [k \in {x \in DOMAIN val : val[x] # None} |-> val[k]]

\* requests that pass validation: both media kinds, both backends, original
\* and converted formats, an unsupported audio format, the kind left out
AcceptableRequests ==
    {MkData(ValidUrl, "audio", "s1", dl, af, None) :
        dl \in {"ytdlp", "aria2c"}, af \in {"original", "flac"}}
    \cup
    {MkData(ValidUrl, "video", "s1", dl, None, vf) :
        dl \in {"ytdlp", "aria2c"}, vf \in {None, "mp4"}}
    \cup
    {MkData(ValidUrl, None, "s1", "ytdlp", None, None)}

\* requests that differ from an accelerator video request in one field
MalformedRequests ==
    {MkData(u, "video", "s1", "aria2c", None, None) :
        u \in {None, "", "  ", "example.com/v", "https:///v"}}
    \cup {MkData(ValidUrl, "image", "s1", "aria2c", None, None),
          MkData(ValidUrl, "video", "s1", "wget", None, None),
          MkData(ValidUrl, "video", None, "aria2c", None, None),
          MkData(ValidUrl, "video", "", "aria2c", None, None)}

Requests == AcceptableRequests \cup MalformedRequests

\* ------------------------------------------------------------- state
VARIABLES
    has_aria2c,      \* PERFORMANCE_CONFIG["has_aria2c"], fixed at import
    clock,           \* what monotonic() reads
    DownloadStatus,  \* the registry: session_id -> latest payload
    queue,           \* EXECUTOR's work queue: ids of the jobs not yet taken
    workers,         \* EXECUTOR's threads: the id of the job each runs, 0 if idle
    jobs,            \* the jobs submitted to EXECUTOR, by id
    nsubmits,        \* calls of api_download so far
    probes,          \* calls of check_aria2c_availability so far
    resp,            \* the response of the latest api_download call
    unit,            \* the object or function call a specification drives on its own
    sio              \* Socket.IO: the rooms, and what emit() has sent to each client

vars == <<has_aria2c, clock, DownloadStatus, queue, workers, jobs, nsubmits,
          probes, resp, unit, sio>>

\* the clients connected, their request.sid
Clients == {"c1"}

\* Socket.IO before any client has joined a room or was sent anything
NoClients == [rooms |-> [c \in Clients |-> {}], sent |-> [c \in Clients |-> <<>>]]

\* a DownloadProgress instance right after __init__
NewReporter(session_id, downloader_type) ==
    [session_id |-> session_id, downloader_type |-> downloader_type, last_emit |-> 0]

NoReporter == [session_id |-> None, downloader_type |-> None, last_emit |-> 0]

\* --------------------------------------------------------- api_download
\* a validation that refuses a session_id that has a job not yet ended
ValidationError_OneJobPerSession(data) ==
    LET url == Strip(Get(data, "url", ""))
        dtype == Get(data, "type", "video")
        downloader == Get(data, "downloader", "ytdlp")
        session_id == Get(data, "session_id", None)
    IN  IF url = "" THEN "missing URL"
        ELSE IF dtype \notin {"video", "audio"} THEN "unsupported type"
        ELSE IF downloader \notin {"ytdlp", "aria2c"} THEN "unsupported downloader"
        ELSE IF UrlScheme(url) = "" \/ UrlNetloc(url) = "" THEN "invalid URL"
        ELSE IF ~Truthy(session_id) THEN "missing session_id"
        ELSE IF \E j \in DOMAIN jobs : jobs[j].session_id = session_id
                                        /\ jobs[j].pc \notin {"done", "raised"}
             THEN "session busy"
        ELSE ""

\* ValidationError without the session_id check
ValidationError_NoSessionCheck(data) ==
    LET url == Strip(Get(data, "url", ""))
        dtype == Get(data, "type", "video")
        downloader == Get(data, "downloader", "ytdlp")
    IN  IF url = "" THEN "missing URL"
        ELSE IF dtype \notin {"video", "audio"} THEN "unsupported type"
        ELSE IF downloader \notin {"ytdlp", "aria2c"} THEN "unsupported downloader"
        ELSE IF UrlScheme(url) = "" \/ UrlNetloc(url) = "" THEN "invalid URL"
        ELSE ""

\* the parameter validation of api_download: the error of the first check that
\* fails, "" when all pass
ValidationError(data) ==
    LET url == Strip(Get(data, "url", ""))
        dtype == Get(data, "type", "video")
        session_id == Get(data, "session_id", None)
        downloader == Get(data, "downloader", "ytdlp")
    IN  IF url = "" THEN "missing URL"
        ELSE IF dtype \notin {"video", "audio"} THEN "unsupported type"
        ELSE IF downloader \notin {"ytdlp", "aria2c"} THEN "unsupported downloader"
        ELSE IF UrlScheme(url) = "" \/ UrlNetloc(url) = "" THEN "invalid URL"
        ELSE IF ~Truthy(session_id) THEN "missing session_id"
        ELSE ""

\* the audio format check: an audio format outside the supported list is
\* replaced by mp3 in the request
FixAudioFormat(data) ==
    IF Get(data, "type", "video") = "audio"
       /\ Get(data, "audio_format", "mp3") \notin {"original", "mp3", "wav"}
    THEN Put(data, "audio_format", "mp3")
    ELSE data

\* what check_aria2c_availability may return: False without the executable,
\* otherwise the outcome of running "aria2c --version"
check_aria2c_availability == IF has_aria2c THEN BOOLEAN ELSE {FALSE}

\* SelectBackend without the assignment data["downloader"] = "ytdlp"
SelectBackend_NoFallback(data, is_available) == data

\* the fallback of api_download, data["downloader"] = "ytdlp": the request
\* handed to the job when the probe returned is_available
SelectBackend(data, is_available) ==
    IF Get(data, "downloader", "ytdlp") = "aria2c" /\ ~is_available
    THEN Put(data, "downloader", "ytdlp")
    ELSE data

\* EffectiveDownloader without the assignment downloader = "ytdlp"
EffectiveDownloader_Stale(downloader, is_available) == downloader

\* the fallback of api_download, downloader = "ytdlp": the local variable the
\* response is built from
EffectiveDownloader(downloader, is_available) ==
    IF downloader = "aria2c" /\ ~is_available THEN "ytdlp" ELSE downloader

Upper(fmt) ==
    CASE fmt = "mp3" -> "MP3" [] fmt = "wav" -> "WAV" [] fmt = "mp4" -> "MP4"
      [] OTHER -> fmt

\* the JSON body api_download returns for an accepted request; data is the
\* request after the format check and the fallback, downloader the local
\* variable after the fallback
Acknowledgement(data, downloader) ==
    LET dtype == Get(data, "type", "video")
        fmt == IF dtype = "audio" THEN Get(data, "audio_format", "mp3")
               ELSE Get(data, "video_format", "original")
        is_original == (fmt = "original")
        downloader_name == IF downloader = "aria2c" THEN "aria2c accelerator"
                           ELSE "yt-dlp optimized"
    IN  [message |-> "task submitted",
         session_id |-> Get(data, "session_id", None),
         type |-> dtype,
         format |-> IF is_original THEN "original format" ELSE Upper(fmt),
         is_original |-> is_original,
         downloader |-> downloader_name,
         performance_mode |-> downloader_name,
         supported_audio_formats |->
             IF dtype = "audio" THEN <<"original", "mp3", "wav">> ELSE <<>>]

\* the work item EXECUTOR.submit(download_media, data, session_id) creates;
\* requested and probe_ok record what api_download saw
\* return_code is -1 until process.wait() has returned.
\* what a job keeps of the result of extract_info in download_with_aria2c:
\* whether a listed format has an http(s) url, the top-level url, and the
\* download_url settled on
NotExtracted == [done |-> FALSE, any_http |-> FALSE, url |-> None, download_url |-> None]

NewJob(data, session_id, requested, probe_ok) ==
    [opts |-> data, session_id |-> session_id, pc |-> "queued",
     progress |-> NoReporter, pub |-> <<>>,
     external_downloader |-> None, aria2c |-> "none",
     ncb |-> 0, nfiles |-> 0, last_progress_time |-> 0,
     filename |-> None, success |-> FALSE,
     requested |-> requested, probe_ok |-> probe_ok,
     extracted |-> NotExtracted,
     return_code |-> -1, output_exists |-> FALSE,
     ffmpeg |-> "unchecked", called |-> "none"]

api_download(data) ==
    /\ nsubmits' = nsubmits + 1
    /\ IF ValidationError(data) # ""
       THEN /\ resp' = [code |-> 400, body |-> [error |-> ValidationError(data)]]
            /\ UNCHANGED <<probes, jobs, queue>>
       ELSE LET downloader == Get(data, "downloader", "ytdlp")
                fixed == FixAudioFormat(data)
            IN  \E is_available \in
                     (IF downloader = "aria2c" THEN check_aria2c_availability ELSE {TRUE}) :
                   LET opts == SelectBackend(fixed, is_available)
                   IN  /\ probes' = IF downloader = "aria2c" THEN probes + 1 ELSE probes
                       /\ jobs' = Append(jobs, NewJob(opts, Get(data, "session_id", None),
                                                      downloader, is_available))
                       /\ queue' = Append(queue, Len(jobs) + 1)
                       /\ resp' = [code |-> 200,
                                body |-> Acknowledgement(opts,
                                    EffectiveDownloader(downloader, is_available))]
    /\ UNCHANGED <<has_aria2c, clock, DownloadStatus, workers, unit, sio>>

\* ------------------------------------------------------ DownloadProgress
\* _emit with the throttle applied to every status
DownloadProgress_emit_ThrottleAll(r, payload, now) ==
    IF now - r.last_emit < progress_throttle
    THEN [sent |-> FALSE, progress |-> r, payload |-> payload]
    ELSE [sent |-> TRUE,
          progress |-> [r EXCEPT !.last_emit = now],
          payload |-> Put(payload, "downloader", r.downloader_type)]

\* _emit with the comparison now - _last_emit <= progress_throttle
DownloadProgress_emit_Inclusive(r, payload, now) ==
    IF payload["status"] = "downloading" /\ now - r.last_emit <= progress_throttle
    THEN [sent |-> FALSE, progress |-> r, payload |-> payload]
    ELSE [sent |-> TRUE,
          progress |-> [r EXCEPT !.last_emit = now],
          payload |-> Put(payload, "downloader", r.downloader_type)]

\* _emit that moves _last_emit for "downloading" payloads only
DownloadProgress_emit_NoReset(r, payload, now) ==
    IF payload["status"] = "downloading" /\ now - r.last_emit < progress_throttle
    THEN [sent |-> FALSE, progress |-> r, payload |-> payload]
    ELSE [sent |-> TRUE,
          progress |-> IF payload["status"] = "downloading"
                       THEN [r EXCEPT !.last_emit = now] ELSE r,
          payload |-> Put(payload, "downloader", r.downloader_type)]

\* DownloadProgress._emit at clock reading now: whether the payload goes out,
\* the reporter afterwards and the payload written and pushed
DownloadProgress_emit(r, payload, now) ==
    IF payload["status"] = "downloading" /\ now - r.last_emit < progress_throttle
    THEN [sent |-> FALSE, progress |-> r, payload |-> payload]
    ELSE [sent |-> TRUE,
          progress |-> [r EXCEPT !.last_emit = now],
          payload |-> Put(payload, "downloader", r.downloader_type)]

\* round(x, 1) of x = num / den * 100, in tenths of a percent (ties to even)
RoundTenths(num, den) ==
    LET q == (num * 1000) \div den
        r == (num * 1000) % den
    IN  IF 2 * r < den THEN q
        ELSE IF 2 * r > den THEN q + 1
        ELSE IF q % 2 = 0 THEN q ELSE q + 1

\* a falsy first operand of Python's "or" gives the second
Or(a, b) == IF a # 0 THEN a ELSE b

\* the "downloading" payload without min(99.9, ...)
DownloadingPayload_NoCap(d) ==
    LET downloaded == Or(Get(d, "downloaded_bytes", 0), 0)
        total == Or(Get(d, "total_bytes", 0), Or(Get(d, "total_bytes_estimate", 0), 0))
        percent == IF total # 0 THEN RoundTenths(downloaded, total) ELSE 0
    IN  [status |-> "downloading", percentage |-> percent]

\* the "downloading" branch of progress_hook: the payload built from d
DownloadingPayload(d) ==
    LET downloaded == Or(Get(d, "downloaded_bytes", 0), 0)
        total == Or(Get(d, "total_bytes", 0), Or(Get(d, "total_bytes_estimate", 0), 0))
        percent == IF total # 0
                   THEN Min(PercentCap, RoundTenths(downloaded, total))
                   ELSE 0
    IN  [status |-> "downloading", percentage |-> percent]

\* get_file_type_info(ext)[0]
get_file_type_info(ext) ==
    IF ext \in {"mp3", "wav", "m4a", "aac", "ogg", "opus", "flac", "webm"} THEN "audio"
    ELSE IF ext \in {"mp4", "mkv", "avi", "mov", "wmv", "flv", "webm", "m4v"} THEN "video"
    ELSE "unknown"

\* titles the extraction may report; the second holds the marker text
Titles == {"clip", "clip[original]"}

\* a file name: the title, whether the output template adds "[original]",
\* and the extension
FileName(title, marker, ext) == [title |-> title, marker |-> marker, ext |-> ext]

\* "[original]" in filename
is_original_format_file(filename) ==
    filename.marker \/ filename.title = "clip[original]"

\* the "finished" branch of progress_hook: the payload built from the file name
FinishedPayload(fname) ==
    [status |-> "finished", percentage |-> PercentDone, filename |-> fname,
     download_type |-> get_file_type_info(fname.ext),
     is_original |-> is_original_format_file(fname)]

\* ------------------------------------------------------------- jobs
\* is_original of download_media, download_with_ytdlp and generate_ydl_options
IsOriginal(opts) ==
    IF opts["type"] = "audio" THEN Get(opts, "audio_format", "mp3") = "original"
    ELSE IF opts["type"] = "video" THEN Get(opts, "video_format", "original") = "original"
    ELSE FALSE

\* the external_downloader option generate_ydl_options sets
generate_ydl_options(opts) ==
    IF Get(opts, "downloader", "ytdlp") = "aria2c" /\ has_aria2c /\ ~IsOriginal(opts)
    THEN "aria2c"
    ELSE None

\* a branch of download_media that does not look at the format
UsesAria2cDirect_AnyFormat(opts) ==
    Get(opts, "downloader", "ytdlp") = "aria2c" /\ has_aria2c

\* the branch of download_media: TRUE for download_with_aria2c
UsesAria2cDirect(opts) ==
    Get(opts, "downloader", "ytdlp") = "aria2c" /\ has_aria2c /\ IsOriginal(opts)

\* a registry write that drops the entry of a finished session
Written_Evicting(session_id, payload) ==
    IF payload["status"] = "finished"
    THEN [x \in DOMAIN DownloadStatus \ {session_id} |-> DownloadStatus[x]]
    ELSE Put(DownloadStatus, session_id, payload)

\* the registry after a write for session_id
Written(session_id, payload) == Put(DownloadStatus, session_id, payload)

\* the registry after an _emit call with result res: _emit writes what it sends
WrittenIf(session_id, res) ==
    IF res.sent THEN Written(session_id, res.payload) ELSE DownloadStatus

\* a pool whose thread stays bound to the job it ran
Released_Stuck(j) == workers

\* the pool after the job function of job j has returned or raised
Released(j) == [w \in DOMAIN workers |-> IF workers[w] = j THEN 0 ELSE workers[w]]

\* what pub keeps of a payload pushed to the room: its status and percentage
Pushed(payload) ==
    [status |-> payload["status"], percentage |-> Get(payload, "percentage", -1)]

\* job j after res, the result of an _emit call on its reporter
AfterEmit(job, res) ==
    [job EXCEPT !.progress = res.progress,
                !.pub = IF res.sent THEN Append(@, Pushed(res.payload)) ELSE @]

\* job j after a payload was written and pushed without a reporter
AfterSend(job, payload) == [job EXCEPT !.pub = Append(@, Pushed(payload))]

\* a thread that takes the oldest work item and leaves it in the queue
WorkerTake_LeavesQueued(w) ==
    /\ workers[w] = 0
    /\ queue # <<>>
    /\ workers' = [workers EXCEPT ![w] = Head(queue)]
    /\ jobs' = [jobs EXCEPT ![Head(queue)].pc = "start"]
    /\ UNCHANGED <<has_aria2c, clock, DownloadStatus, queue, nsubmits, probes,
                   resp, unit, sio>>

\* an idle thread of EXECUTOR takes the oldest queued work item
WorkerTake(w) ==
    /\ workers[w] = 0
    /\ queue # <<>>
    /\ workers' = [workers EXCEPT ![w] = Head(queue)]
    /\ queue' = Tail(queue)
    /\ jobs' = [jobs EXCEPT ![Head(queue)].pc = "start"]
    /\ UNCHANGED <<has_aria2c, clock, DownloadStatus, nsubmits, probes,
                   resp, unit, sio>>

\* the ffmpeg test made for every audio job
NeedsFfmpeg_AnyAudio(opts) == opts["type"] = "audio"

\* whether download_media calls check_ffmpeg_availability
NeedsFfmpeg(opts) ==
    opts["type"] = "audio" /\ Get(opts, "audio_format", "mp3") # "original"

\* the payload download_media emits when ffmpeg is not available
FfmpegMissing ==
    [status |-> "error",
     message |-> "ffmpeg unavailable: install ffmpeg or choose the original format"]

\* download_media up to the call of download_with_aria2c or download_with_ytdlp;
\* the job keeps in ffmpeg what check_ffmpeg_availability returned, and in
\* called the function download_media went on to call
download_media(j) ==
    /\ jobs[j].pc = "start"
    /\ LET job == jobs[j]
           opts == job.opts
       IN  IF "url" \notin DOMAIN opts \/ "type" \notin DOMAIN opts
           THEN \* opts["url"], opts["type"]: KeyError, outside every try
                /\ jobs' = [jobs EXCEPT ![j].pc = "raised"]
                /\ workers' = Released(j)
                /\ UNCHANGED DownloadStatus
           ELSE LET downloader_type == Get(opts, "downloader", "ytdlp")
                    needs_ffmpeg == NeedsFfmpeg(opts)
                    checked(ok) == IF ~needs_ffmpeg THEN "unchecked"
                                   ELSE IF ok THEN "available" ELSE "missing"
                IN  \E ffmpeg_ok \in (IF needs_ffmpeg THEN BOOLEAN ELSE {TRUE}) :
                      IF ~ffmpeg_ok
                      THEN LET res == DownloadProgress_emit(
                                          NewReporter(job.session_id, downloader_type),
                                          FfmpegMissing, clock)
                           IN  /\ jobs' = [jobs EXCEPT ![j] =
                                              [AfterEmit(job, res) EXCEPT
                                                  !.pc = "done",
                                                  !.ffmpeg = checked(ffmpeg_ok)]]
                               /\ DownloadStatus' = WrittenIf(job.session_id, res)
                               /\ workers' = Released(j)
                      ELSE /\ jobs' = [jobs EXCEPT
                                          ![j].pc = IF UsesAria2cDirect(opts)
                                                    THEN "aria2c_extract"
                                                    ELSE "ytdlp_extract",
                                          ![j].ffmpeg = checked(ffmpeg_ok),
                                          ![j].called = IF UsesAria2cDirect(opts)
                                                        THEN "download_with_aria2c"
                                                        ELSE "download_with_ytdlp"]
                           /\ UNCHANGED <<DownloadStatus, workers>>
    /\ UNCHANGED <<has_aria2c, clock, queue, nsubmits, probes, resp, unit, sio>>

\* the message of the except clause of download_with_ytdlp for an exception
\* whose text names ffmpeg, a postprocessor, or neither
YtdlpErrorMessage(kind) ==
    CASE kind = "ffmpeg" -> "ffmpeg failed, try the original format"
      [] kind = "postprocessor" -> "post-processing failed, try the original format"
      [] OTHER -> "download failed"

\* whether generate_ydl_options configures a postprocessor
HasPostprocessors(opts) ==
    IF opts["type"] = "audio" THEN Get(opts, "audio_format", "mp3") # "original"
    ELSE Get(opts, "video_format", "original") \in {"mp4", "mkv", "avi"}

\* extensions of the files the embedded transfer writes
DownloadedExts(opts) == IF opts["type"] = "audio" THEN {"m4a", "webm"} ELSE {"mp4", "webm"}

\* download_with_ytdlp up to the call of ydl.download: the reporter, the
\* options, extract_info, the starting event; or the except clause
download_with_ytdlp(j) ==
    /\ jobs[j].pc = "ytdlp_extract"
    /\ LET job == jobs[j]
           opts == job.opts
           downloader_type == Get(opts, "downloader", "ytdlp")
           progress == NewReporter(job.session_id, downloader_type)
           external == generate_ydl_options(opts)
           downloader_name == IF downloader_type = "aria2c" THEN "aria2c accelerator"
                              ELSE "yt-dlp optimized"
       IN  \E extracted \in BOOLEAN :
             LET payload == IF extracted
                            THEN [status |-> "starting", type |-> opts["type"],
                                  is_original |-> IsOriginal(opts),
                                  downloader |-> downloader_name]
                            ELSE [status |-> "error",
                                  message |-> YtdlpErrorMessage("extract")]
                 res == DownloadProgress_emit(progress, payload, clock)
             IN  /\ jobs' = [jobs EXCEPT ![j] =
                        [AfterEmit(job, res) EXCEPT
                            !.pc = IF extracted THEN "ytdlp_download" ELSE "done",
                            !.external_downloader = external,
                            !.aria2c = IF extracted /\ external = "aria2c"
                                       THEN "external" ELSE "none"]]
                 /\ DownloadStatus' = WrittenIf(job.session_id, res)
                 /\ workers' = IF extracted THEN workers ELSE Released(j)
    /\ UNCHANGED <<has_aria2c, clock, queue, nsubmits, probes, resp, unit, sio>>

\* yt-dlp calls progress_hook with a "downloading" dict d; the built-in
\* downloader alone reports these.  pc "ytdlp_file": a file is being
\* transferred; pc "ytdlp_download": ydl.download runs between two files
progress_hook_downloading(j, d) ==
    /\ jobs[j].pc \in {"ytdlp_download", "ytdlp_file"}
    /\ jobs[j].external_downloader = None
    /\ jobs[j].ncb < MaxCallbacks
    /\ LET job == jobs[j]
           res == DownloadProgress_emit(job.progress, DownloadingPayload(d), clock)
       IN  /\ jobs' = [jobs EXCEPT ![j] = [AfterEmit(job, res) EXCEPT
                                          !.ncb = @ + 1, !.pc = "ytdlp_file"]]
           /\ DownloadStatus' = WrittenIf(job.session_id, res)
    /\ UNCHANGED <<has_aria2c, clock, queue, workers, nsubmits, probes,
                   resp, unit, sio>>

\* yt-dlp calls progress_hook with a "finished" dict for a file it has written
progress_hook_finished(j, title, ext) ==
    /\ jobs[j].pc \in {"ytdlp_download", "ytdlp_file"}
    /\ jobs[j].nfiles < MaxFiles
    /\ ext \in DownloadedExts(jobs[j].opts)
    /\ LET job == jobs[j]
           fname == FileName(title, IsOriginal(job.opts), ext)
           res == DownloadProgress_emit(job.progress, FinishedPayload(fname), clock)
       IN  /\ jobs' = [jobs EXCEPT ![j] = [AfterEmit(job, res) EXCEPT
                                          !.nfiles = @ + 1, !.pc = "ytdlp_download"]]
           /\ DownloadStatus' = WrittenIf(job.session_id, res)
    /\ UNCHANGED <<has_aria2c, clock, queue, workers, nsubmits, probes,
                   resp, unit, sio>>

\* ydl.download returns: every file was written (its "finished" call was the
\* last call of the hook) and post-processed
ytdlp_download_returns(j) ==
    /\ jobs[j].pc = "ytdlp_download"
    /\ jobs[j].nfiles >= 1
    /\ jobs' = [jobs EXCEPT ![j].pc = "done", ![j].success = TRUE]
    /\ workers' = Released(j)
    /\ UNCHANGED <<has_aria2c, clock, DownloadStatus, queue, nsubmits, probes,
                   resp, unit, sio>>

\* ydl.download raises (the transfer, or a postprocessor after a file was
\* written): the except clause of download_with_ytdlp
ytdlp_download_raises(j, kind) ==
    /\ jobs[j].pc \in {"ytdlp_download", "ytdlp_file"}
    /\ kind \in {"ffmpeg", "postprocessor"} =>
           HasPostprocessors(jobs[j].opts) /\ jobs[j].nfiles >= 1
    /\ LET job == jobs[j]
           res == DownloadProgress_emit(job.progress,
                      [status |-> "error", message |-> YtdlpErrorMessage(kind)], clock)
       IN  /\ jobs' = [jobs EXCEPT ![j] = [AfterEmit(job, res) EXCEPT !.pc = "done"]]
           /\ DownloadStatus' = WrittenIf(job.session_id, res)
    /\ workers' = Released(j)
    /\ UNCHANGED <<has_aria2c, clock, queue, nsubmits, probes, resp, unit, sio>>

\* ------------------------------------------------- download_with_aria2c
\* candidate formats the extraction may list: a combined mp4, a combined webm
\* of greater height, an audio-only webm, a combined mp4 without an http(s)
\* URL, a second combined mp4 of the first one's height and bitrate, and an
\* audio-only m4a that holds neither vcodec nor height
Candidates ==
    {[url |-> "https://cdn/a", vcodec |-> "avc1", acodec |-> "mp4a", height |-> 480,
      abr |-> 128, ext |-> "mp4"],
     [url |-> "https://cdn/b", vcodec |-> "vp9", acodec |-> "opus", height |-> 720,
      abr |-> 160, ext |-> "webm"],
     [url |-> "https://cdn/c", vcodec |-> "none", acodec |-> "opus", height |-> 0,
      abr |-> 160, ext |-> "webm"],
     [url |-> "rtmp://cdn/d", vcodec |-> "avc1", acodec |-> "mp4a", height |-> 1080,
      abr |-> 192, ext |-> "mp4"],
     [url |-> "https://cdn/e", vcodec |-> "avc1", acodec |-> "mp4a", height |-> 480,
      abr |-> 128, ext |-> "mp4"],
     [url |-> "https://cdn/f", acodec |-> "mp4a", abr |-> 128, ext |-> "m4a"]}

\* longest format list of an extraction result
MaxFormats == 2

FormatLists == UNION {[1..n -> Candidates] : n \in 0..MaxFormats}

\* url_field.startswith(("http://", "https://"))
IsHttpUrl(u) ==
    u \in {"https://cdn/a", "https://cdn/b", "https://cdn/c", "https://cdn/e",
           "https://cdn/f", "https://cdn/direct"}

\* what extract_info may return: a title, the format list, the top-level url
Infos ==
    {[title |-> t, formats |-> fs, url |-> u] :
        t \in Titles, fs \in FormatLists,
        u \in {None, "https://cdn/direct", "rtmp://cdn/direct"}}

\* what a job keeps of the extraction result info
Extracted(info, download_url) ==
    [done |-> TRUE,
     any_http |-> \E i \in DOMAIN info.formats : IsHttpUrl(info.formats[i].url),
     url |-> info.url,
     download_url |-> download_url]

\* the filter of the selection loop without the test of the url
Usable_AnyUrl(fmt, dtype) ==
    IF dtype = "video"
    THEN /\ Get(fmt, "vcodec", None) \notin {None, "", "none"}
         /\ Get(fmt, "acodec", None) \notin {None, "", "none"}
    ELSE Get(fmt, "acodec", None) \notin {None, "", "none"}

\* the filter of the selection loop
Usable(fmt, dtype) ==
    /\ IsHttpUrl(fmt.url)
    /\ IF dtype = "video"
       THEN /\ Get(fmt, "vcodec", None) \notin {None, "", "none"}
            /\ Get(fmt, "acodec", None) \notin {None, "", "none"}
       ELSE Get(fmt, "acodec", None) \notin {None, "", "none"}

\* quality_score of the selection loop
quality_score(fmt, dtype) ==
    IF dtype = "video"
    THEN Get(fmt, "height", 0) + (IF Get(fmt, "ext", None) = "mp4" THEN 1000 ELSE 0)
    ELSE Get(fmt, "abr", 0)
         + (IF Get(fmt, "ext", None) \in {"webm", "m4a", "mp3"} THEN 100 ELSE 0)

\* best_formats after the selection loop: the score and the index of every
\* usable format, in the order of the list
best_formats(formats, dtype) ==
    LET F[i \in 0..Len(formats)] ==
            IF i = 0 THEN <<>>
            ELSE IF Usable(formats[i], dtype)
                 THEN Append(F[i - 1], [score |-> quality_score(formats[i], dtype),
                                        idx |-> i])
                 ELSE F[i - 1]
    IN  F[Len(formats)]

\* an insertion that puts x before the entries of its own score
Insert_BeforeEquals(sorted, x) ==
    LET k == Cardinality({i \in DOMAIN sorted : sorted[i].score > x.score})
    IN  SubSeq(sorted, 1, k) \o <<x>> \o SubSeq(sorted, k + 1, Len(sorted))

\* x put into a list sorted by falling score, behind the entries of its own
\* score: list.sort is stable, with reverse=True too
Insert(sorted, x) ==
    LET k == Cardinality({i \in DOMAIN sorted : sorted[i].score >= x.score})
    IN  SubSeq(sorted, 1, k) \o <<x>> \o SubSeq(sorted, k + 1, Len(sorted))

\* best_formats.sort(key=lambda x: x[0], reverse=True)
RECURSIVE SortDescending(_)
SortDescending(pairs) ==
    IF pairs = <<>> THEN <<>>
    ELSE Insert(SortDescending(SubSeq(pairs, 1, Len(pairs) - 1)), pairs[Len(pairs)])

\* the index of selected_format, best_formats[0][1] after the sort; 0 when
\* best_formats is empty
SelectFormat(formats, dtype) ==
    LET sorted == SortDescending(best_formats(formats, dtype))
    IN  IF sorted = <<>> THEN 0 ELSE sorted[1].idx

\* the download URL download_with_aria2c settles on, None when there is none
DownloadUrl(info, dtype) ==
    LET i == SelectFormat(info.formats, dtype)
    IN  IF i # 0 THEN info.formats[i].url
        ELSE IF info.url # None /\ IsHttpUrl(info.url) THEN info.url
        ELSE None

\* the file name download_with_aria2c builds
Aria2cFileName(info, dtype) ==
    LET i == SelectFormat(info.formats, dtype)
        ext == IF i # 0 THEN info.formats[i].ext
               ELSE IF dtype = "video" THEN "mp4" ELSE "webm"
    IN  FileName(info.title, TRUE, ext)

\* the payload of Aria2cDownloader.send_progress
send_progress(progress_info) ==
    [status |-> "downloading",
     percentage |-> Min(PercentCap, progress_info.percentage * 10),
     downloader |-> "aria2c"]

\* the payload of Aria2cDownloader.send_completion
send_completion(filename) == Put(FinishedPayload(filename), "downloader", "aria2c")

\* the payload of Aria2cDownloader.send_error
send_error(message) == [status |-> "error", message |-> message, downloader |-> "aria2c"]

\* download_with_aria2c up to the read loop of Aria2cDownloader.download:
\* extraction, format selection, the starting event, Popen; or the except
\* clause
download_with_aria2c(j) ==
    /\ jobs[j].pc = "aria2c_extract"
    /\ LET job == jobs[j]
           dtype == job.opts["type"]
           failed(message, extracted) ==
               LET res == DownloadProgress_emit(NewReporter(job.session_id, "aria2c"),
                              [status |-> "error", message |-> message,
                               suggestion |-> "try the yt-dlp downloader"], clock)
               IN  /\ jobs' = [jobs EXCEPT ![j] = [AfterEmit(job, res) EXCEPT
                                                      !.pc = "done",
                                                      !.extracted = extracted]]
                   /\ DownloadStatus' = WrittenIf(job.session_id, res)
                   /\ workers' = Released(j)
       IN  \/ failed("extraction failed", NotExtracted)
           \/ \E info \in Infos :
                IF DownloadUrl(info, dtype) = None
                THEN failed("no usable download link", Extracted(info, None))
                ELSE LET filename == Aria2cFileName(info, dtype)
                         res == DownloadProgress_emit(
                                    NewReporter(job.session_id, "aria2c"),
                                    [status |-> "starting", type |-> dtype,
                                     is_original |-> TRUE,
                                     downloader |-> "aria2c accelerator"], clock)
                         started == [AfterEmit(job, res) EXCEPT
                                        !.filename = filename,
                                        !.extracted =
                                            Extracted(info, DownloadUrl(info, dtype))]
                     IN  \E spawned \in BOOLEAN :
                           IF spawned
                           THEN /\ jobs' = [jobs EXCEPT ![j] =
                                       [started EXCEPT !.pc = "aria2c_read",
                                                       !.aria2c = "direct"]]
                                /\ DownloadStatus' = WrittenIf(job.session_id, res)
                                /\ UNCHANGED workers
                           ELSE \* Popen raises: the except clause of download()
                                /\ jobs' = [jobs EXCEPT ![j] =
                                       [AfterSend(started, send_error("aria2c exception"))
                                           EXCEPT !.pc = "done"]]
                                /\ DownloadStatus' =
                                       Written(job.session_id, send_error("aria2c exception"))
                                /\ workers' = Released(j)
    /\ UNCHANGED <<has_aria2c, clock, queue, nsubmits, probes, resp, unit, sio>>

\* percentages a summary line of the accelerator may carry
LinePercentages == {0, 50, 100}

\* output lines: a summary line "[#1 SIZE:a/b(p%) ...]" or any other line
Lines == {[summary |-> FALSE, percentage |-> 0]}
         \cup {[summary |-> TRUE, percentage |-> p] : p \in LinePercentages}

\* one pass of the read loop of Aria2cDownloader.download over a line
aria2c_readline(j, line) ==
    /\ jobs[j].pc = "aria2c_read"
    /\ jobs[j].ncb < MaxCallbacks
    /\ LET job == jobs[j]
           sends == line.summary /\ clock - job.last_progress_time >= aria2c_throttle
       IN  IF sends
           THEN /\ jobs' = [jobs EXCEPT ![j] =
                       [AfterSend(job, send_progress(line)) EXCEPT
                           !.ncb = @ + 1, !.last_progress_time = clock]]
                /\ DownloadStatus' = Written(job.session_id, send_progress(line))
           ELSE /\ jobs' = [jobs EXCEPT ![j].ncb = @ + 1]
                /\ UNCHANGED DownloadStatus
    /\ UNCHANGED <<has_aria2c, clock, queue, workers, nsubmits, probes,
                   resp, unit, sio>>

\* the event after process.wait(), decided by the exit code alone
ExitEvent_ByCodeOnly(filename, return_code, exists) ==
    IF return_code = 0 THEN send_completion(filename)
    ELSE send_error("aria2c exit code")

\* the event Aria2cDownloader.download sends after process.wait()
ExitEvent(filename, return_code, exists) ==
    IF return_code = 0
    THEN IF exists THEN send_completion(filename)
         ELSE send_error("file missing")
    ELSE send_error("aria2c exit code")

\* the output ends, process.wait() returns return_code, and the file is or is
\* not at its place: the rest of Aria2cDownloader.download
aria2c_exit(j, return_code, exists) ==
    /\ jobs[j].pc = "aria2c_read"
    /\ LET job == jobs[j]
           payload == ExitEvent(job.filename, return_code, exists)
       IN  /\ jobs' = [jobs EXCEPT ![j] =
                  [AfterSend(job, payload) EXCEPT
                      !.pc = "done", !.success = (return_code = 0 /\ exists),
                      !.return_code = return_code, !.output_exists = exists]]
           /\ DownloadStatus' = Written(job.session_id, payload)
    /\ workers' = Released(j)
    /\ UNCHANGED <<has_aria2c, clock, queue, nsubmits, probes, resp, unit, sio>>

\* ------------------------------------------------------------- time
\* time steps of the monotonic clock between two steps of the program
TickSteps == {10}

Tick(d) ==
    /\ clock + d <= MaxClock
    /\ clock' = clock + d
    /\ UNCHANGED <<has_aria2c, DownloadStatus, queue, workers, jobs, nsubmits,
                   probes, resp, unit, sio>>

\* --------------------------------------------------- specification
NoUnit == [progress |-> NoReporter, calls |-> <<>>, pub |-> <<>>]

Init ==
    /\ has_aria2c \in BOOLEAN
    /\ clock = 0
    /\ DownloadStatus = <<>>
    /\ queue = <<>>
    /\ workers = [w \in 1..MAX_WORKERS |-> 0]
    /\ jobs = <<>>
    /\ nsubmits = 0
    /\ probes = 0
    /\ resp = [code |-> 0, body |-> <<>>]
    /\ sio = NoClients
    /\ unit = NoUnit

JobIds == DOMAIN jobs

\* the life of one accepted request, in full
Next ==
    \/ \E data \in AcceptableRequests : jobs = <<>> /\ api_download(data)
    \/ \E w \in DOMAIN workers : WorkerTake(w)
    \/ \E j \in JobIds : download_media(j)
    \/ \E j \in JobIds : download_with_ytdlp(j)
    \/ \E j \in JobIds : \E d \in [downloaded_bytes : 0..MaxBytes, total_bytes : 0..MaxBytes,
                                  total_bytes_estimate : 0..MaxBytes] :
           progress_hook_downloading(j, d)
    \/ \E j \in JobIds : \E title \in Titles : \E ext \in {"mp4", "webm", "m4a"} :
           progress_hook_finished(j, title, ext)
    \/ \E j \in JobIds : ytdlp_download_returns(j)
    \/ \E j \in JobIds : \E kind \in {"network", "ffmpeg", "postprocessor"} :
           ytdlp_download_raises(j, kind)
    \/ \E j \in JobIds : download_with_aria2c(j)
    \/ \E j \in JobIds : \E line \in Lines : aria2c_readline(j, line)
    \/ \E j \in JobIds : \E return_code \in {0, 1} : \E exists \in BOOLEAN :
           aria2c_exit(j, return_code, exists)
    \/ \E d \in TickSteps : Tick(d)

Spec == Init /\ [][Next]_vars

\* a step of the job function of job j that waits for no further input of
\* the transfer: the calls of yt-dlp and of the accelerator return
JobStep(j) ==
    \/ download_media(j)
    \/ download_with_ytdlp(j)
    \/ \E title \in Titles : \E ext \in {"mp4", "webm", "m4a"} :
           progress_hook_finished(j, title, ext)
    \/ ytdlp_download_returns(j)
    \/ \E kind \in {"network", "ffmpeg", "postprocessor"} : ytdlp_download_raises(j, kind)
    \/ download_with_aria2c(j)
    \/ \E return_code \in {0, 1} : \E exists \in BOOLEAN :
           aria2c_exit(j, return_code, exists)

\* the life of one accepted request when the pool hands the job to a thread
\* and the thread runs it on
SpecFair ==
    /\ Init
    /\ [][Next]_vars
    /\ WF_vars(\E w \in DOMAIN workers : WorkerTake(w))
    /\ WF_vars(\E j \in JobIds : JobStep(j))

\* ------------------------------------- specification of api_download
\* api_download on every request, accepted or not, with the pool taking the
\* jobs and download_media starting them
SubmitNext ==
    \/ \E data \in Requests : nsubmits < MaxSubmits /\ api_download(data)
    \/ \E w \in DOMAIN workers : WorkerTake(w)
    \/ \E j \in JobIds : download_media(j)

SpecSubmit == Init /\ [][SubmitNext]_vars

\* --------------------------------- specification of DownloadProgress
\* payloads handed to _emit
UnitPayloads ==
    {[status |-> "downloading", percentage |-> 500],
     [status |-> "starting"],
     [status |-> "finished", percentage |-> PercentDone],
     [status |-> "error"]}

\* one call of _emit on the reporter; calls keeps each call's status, clock
\* reading and outcome
unit_emit(payload) ==
    /\ Len(unit.calls) < MaxCalls
    /\ LET res == DownloadProgress_emit(unit.progress, payload, clock)
       IN  /\ unit' = [progress |-> res.progress,
                       calls |-> Append(unit.calls,
                                    [status |-> payload["status"], at |-> clock,
                                     sent |-> res.sent]),
                       pub |-> IF res.sent THEN Append(unit.pub, res.payload)
                               ELSE unit.pub]
           /\ DownloadStatus' = IF res.sent
                                THEN Written(unit.progress.session_id, res.payload)
                                ELSE DownloadStatus
    /\ UNCHANGED <<has_aria2c, clock, queue, workers, jobs, nsubmits, probes, resp, sio>>

\* time steps between two calls of _emit
UnitTickSteps == {3, 4, 5}

UnitTick(d) ==
    /\ clock + d <= MaxUnitClock
    /\ Tick(d)

\* a reporter right after DownloadProgress("s1", "ytdlp")
InitReporter ==
    /\ has_aria2c = TRUE
    /\ clock = 0
    /\ DownloadStatus = <<>>
    /\ queue = <<>>
    /\ workers = [w \in 1..MAX_WORKERS |-> 0]
    /\ jobs = <<>>
    /\ nsubmits = 0
    /\ probes = 0
    /\ resp = [code |-> 0, body |-> <<>>]
    /\ sio = NoClients
    /\ unit = [progress |-> NewReporter("s1", "ytdlp"), calls |-> <<>>, pub |-> <<>>]

ReporterNext ==
    \/ \E payload \in UnitPayloads : unit_emit(payload)
    \/ \E d \in UnitTickSteps : UnitTick(d)

SpecReporter == InitReporter /\ [][ReporterNext]_vars

\* ------------------------------ specification of parse_size
\* A size token is the sequence of its characters.  A byte count is kept in
\* two limbs, hi * 2^20 + lo, so that counts up to TiB stay within the
\* range of the integers at hand.
Limb == 1048576

Bytes(n) == [hi |-> n \div Limb, lo |-> n % Limb]

Digits == {"0", "1", "2", "3", "4", "5", "6", "7", "8", "9"}

DigitValue(c) ==
    CASE c = "0" -> 0 [] c = "1" -> 1 [] c = "2" -> 2 [] c = "3" -> 3 [] c = "4" -> 4
      [] c = "5" -> 5 [] c = "6" -> 6 [] c = "7" -> 7 [] c = "8" -> 8 [] c = "9" -> 9

RECURSIVE DigitsValue(_)
DigitsValue(cs) ==
    IF cs = <<>> THEN 0
    ELSE 10 * DigitsValue(SubSeq(cs, 1, Len(cs) - 1)) + DigitValue(cs[Len(cs)])

RECURSIVE Pow(_, _)
Pow(b, e) == IF e = 0 THEN 1 ELSE b * Pow(b, e - 1)

\* float(text) for texts of digits and points: the digits without the point
\* and the number of decimals; ok is FALSE where float raises ValueError
ParseFloat(cs) ==
    LET points == {i \in DOMAIN cs : cs[i] = "."}
        others == {i \in DOMAIN cs : cs[i] \notin Digits \cup {"."}}
        digits == SelectSeq(cs, LAMBDA c : c \in Digits)
    IN  IF others # {} \/ Cardinality(points) > 1 \/ digits = <<>>
        THEN [ok |-> FALSE, digits |-> 0, decimals |-> 0]
        ELSE [ok |-> TRUE, digits |-> DigitsValue(digits),
              decimals |-> IF points = {} THEN 0
                           ELSE Len(cs) - (CHOOSE i \in points : TRUE)]

\* int(digits / 10^decimals * 1024^k)
Scaled(digits, decimals, k) ==
    LET den == Pow(10, decimals)
    IN  IF k <= 2 THEN Bytes((digits * Pow(1024, k)) \div den)
        ELSE LET top == digits * Pow(1024, k - 2)
             IN  [hi |-> top \div den, lo |-> ((top % den) * Limb) \div den]

\* str.endswith
EndsWith(cs, suffix) ==
    /\ Len(cs) >= Len(suffix)
    /\ SubSeq(cs, Len(cs) - Len(suffix) + 1, Len(cs)) = suffix

\* the dict units of parse_size in its iteration order, with the power of
\* 1024 of each multiplier
units ==
    << [unit |-> <<"B">>, k |-> 0], [unit |-> <<"K", "i", "B">>, k |-> 1],
       [unit |-> <<"M", "i", "B">>, k |-> 2], [unit |-> <<"G", "i", "B">>, k |-> 3],
       [unit |-> <<"T", "i", "B">>, k |-> 4] >>

\* parse_size: the first unit of the iteration the token ends with decides
parse_size(size_str) ==
    IF size_str = <<>> \/ size_str = <<"0", "B">> THEN Bytes(0)
    ELSE LET matching == {i \in DOMAIN units : EndsWith(size_str, units[i].unit)}
         IN  IF matching = {} THEN Bytes(0)
             ELSE LET i == CHOOSE i \in matching : \A k \in matching : i <= k
                      number == ParseFloat(SubSeq(size_str, 1,
                                                  Len(size_str) - Len(units[i].unit)))
                  IN  IF number.ok
                      THEN Scaled(number.digits, number.decimals, units[i].k)
                      ELSE Bytes(0)

\* the number texts and the suffixes the tokens are made of
NumberTexts ==
    {<<>>, <<"0">>, <<"1">>, <<"7">>, <<"2", "5", "6">>, <<"5", "1", "2">>,
     <<"1", ".", "5">>, <<"0", ".", "5">>, <<"2", ".", "2", "5">>, <<"1", ".", "5", ".">>}

Suffixes ==
    {<<>>, <<"B">>, <<"K", "i", "B">>, <<"M", "i", "B">>, <<"G", "i", "B">>,
     <<"T", "i", "B">>, <<"K", "B">>, <<"X", "i", "B">>, <<"k", "b">>}

Tokens == {n \o x : n \in NumberTexts, x \in Suffixes}

\* a token handed to parse_size and not yet parsed
InitParse ==
    /\ has_aria2c = TRUE
    /\ clock = 0
    /\ DownloadStatus = <<>>
    /\ queue = <<>>
    /\ workers = [w \in 1..MAX_WORKERS |-> 0]
    /\ jobs = <<>>
    /\ nsubmits = 0
    /\ probes = 0
    /\ resp = [code |-> 0, body |-> <<>>]
    /\ sio = NoClients
    /\ \E t \in Tokens : unit = [size_str |-> t, returned |-> FALSE, bytes |-> Bytes(0)]

\* the call parse_size(size_str) returns
parse_size_call ==
    /\ ~unit.returned
    /\ unit' = [unit EXCEPT !.returned = TRUE, !.bytes = parse_size(unit.size_str)]
    /\ UNCHANGED <<has_aria2c, clock, DownloadStatus, queue, workers, jobs, nsubmits,
                   probes, resp, sio>>

SpecParse == InitParse /\ [][parse_size_call]_vars

\* ------------------------------- specification of the session interface
\* snapshots a client may be sent in the session specification
MaxJoins == 1

\* DownloadStatus.get(session_id, {"status": "not_found"})
StatusOf(session_id) == Get(DownloadStatus, session_id, [status |-> "not_found"])

\* GET /api/status/<session_id>
api_status(session_id) ==
    /\ resp' = [code |-> 200, body |-> StatusOf(session_id)]
    /\ UNCHANGED <<has_aria2c, clock, DownloadStatus, queue, workers, jobs, nsubmits,
                   probes, unit, sio>>

\* on_join whose replay ignores that the session has no snapshot
Replay_Always(session_id) ==
    IF Truthy(session_id) THEN <<Get(DownloadStatus, session_id, <<>>)>> ELSE <<>>

\* what on_join emits to the joining client: the session's snapshot, if any
Replay(session_id) ==
    IF Truthy(session_id) /\ session_id \in DOMAIN DownloadStatus
    THEN <<DownloadStatus[session_id]>>
    ELSE <<>>

\* the join messages clients send
JoinMessages ==
    {[session_id |-> "s1"], [session_id |-> "s2"], [session_id |-> ""], <<>>}

\* the handler of "join_session" for client c
on_join(c, data) ==
    /\ LET session_id == Get(data, "session_id", None)
       IN  sio' = [rooms |-> IF Truthy(session_id)
                             THEN [sio.rooms EXCEPT ![c] = @ \cup {session_id}]
                             ELSE sio.rooms,
                   sent |-> [sio.sent EXCEPT ![c] = @ \o Replay(session_id)]]
    /\ UNCHANGED <<has_aria2c, clock, DownloadStatus, queue, workers, jobs, nsubmits,
                   probes, resp, unit>>

\* the requests of the session specification: a video in its original
\* format, on either backend
SessionRequests ==
    {MkData(ValidUrl, "video", "s1", dl, None, None) : dl \in {"ytdlp", "aria2c"}}

\* one accepted job, status queries and joins at any time
SessionNext ==
    \/ \E data \in SessionRequests : jobs = <<>> /\ api_download(data)
    \/ \E w \in DOMAIN workers : WorkerTake(w)
    \/ \E j \in JobIds : download_media(j)
    \/ \E j \in JobIds : download_with_ytdlp(j)
    \/ \E j \in JobIds : progress_hook_downloading(j, [downloaded_bytes |-> 1, total_bytes |-> 1])
    \/ \E j \in JobIds : progress_hook_finished(j, "clip", "mp4")
    \/ \E j \in JobIds : ytdlp_download_returns(j)
    \/ \E j \in JobIds : ytdlp_download_raises(j, "network")
    \/ \E j \in JobIds : download_with_aria2c(j)
    \/ \E j \in JobIds : aria2c_readline(j, [summary |-> TRUE, percentage |-> 50])
    \/ \E j \in JobIds : \E return_code \in {0, 1} : aria2c_exit(j, return_code, TRUE)
    \/ \E d \in TickSteps : Tick(d)
    \/ \E session_id \in {"s1", "s2"} : api_status(session_id)
    \/ \E c \in Clients : \E data \in JoinMessages :
           Len(sio.sent[c]) < MaxJoins /\ on_join(c, data)

SpecSession == Init /\ [][SessionNext]_vars

\* ------------------------------------ specification of the worker pool
\* calls of api_download in the pool specification: one more than threads
MaxPoolSubmits == 3

\* the requests of the pool specification: videos of one session for the
\* embedded backend, each transferred as one file
PoolRequests == {MkData(ValidUrl, "video", "s1", "ytdlp", None, None)}

\* a job function runs on: it reaches ydl.download, and ydl.download comes
\* to its end
JobRuns(j) ==
    \/ download_media(j)
    \/ download_with_ytdlp(j)
    \/ ytdlp_download_returns(j)
    \/ ytdlp_download_raises(j, "network")

PoolNext ==
    \/ \E data \in PoolRequests : nsubmits < MaxPoolSubmits /\ api_download(data)
    \/ \E w \in DOMAIN workers : WorkerTake(w)
    \/ \E j \in JobIds : download_media(j)
    \/ \E j \in JobIds : download_with_ytdlp(j)
    \/ \E j \in JobIds : jobs[j].nfiles = 0 /\ progress_hook_finished(j, "clip", "mp4")
    \/ \E j \in JobIds : ytdlp_download_returns(j)
    \/ \E j \in JobIds : ytdlp_download_raises(j, "network")

\* the server with the accelerator installed and nothing submitted
InitPool ==
    /\ Init
    /\ has_aria2c = TRUE

\* ThreadPoolExecutor hands queued work to an idle thread, and a thread
\* runs its job function on: both weakly fair; every transfer ends
SpecPool ==
    /\ InitPool
    /\ [][PoolNext]_vars
    /\ WF_vars(\E w \in DOMAIN workers : WorkerTake(w))
    /\ WF_vars(\E j \in JobIds : JobRuns(j))

\* ------------------------------ specification of the format selection
\* a format list and a media type handed to the selection, not yet made
InitSelect ==
    /\ has_aria2c = TRUE
    /\ clock = 0
    /\ DownloadStatus = <<>>
    /\ queue = <<>>
    /\ workers = [w \in 1..MAX_WORKERS |-> 0]
    /\ jobs = <<>>
    /\ nsubmits = 0
    /\ probes = 0
    /\ resp = [code |-> 0, body |-> <<>>]
    /\ sio = NoClients
    /\ \E fs \in FormatLists : \E dtype \in {"video", "audio"} :
           unit = [formats |-> fs, dtype |-> dtype, returned |-> FALSE, selected |-> 0]

\* the selection loop and the sort have run
select_format_call ==
    /\ ~unit.returned
    /\ unit' = [unit EXCEPT !.returned = TRUE,
                            !.selected = SelectFormat(unit.formats, unit.dtype)]
    /\ UNCHANGED <<has_aria2c, clock, DownloadStatus, queue, workers, jobs, nsubmits,
                   probes, resp, sio>>

SpecSelect == InitSelect /\ [][select_format_call]_vars

\* --------------------- specification of Aria2cDownloader with cancel()
\* One Aria2cDownloader("s1", callback): a thread runs download(), another
\* may call cancel() at any moment.  unit.pc is the place of download():
\*   "call" before Popen, "check" at `if self.cancelled`, "read" in readline,
\*   "line" with a line in hand, "wait" at process.wait(), "code" at the test
\*   of the exit code, "exists" at os.path.exists, "returned".
\* unit.cpc is the place of cancel(): "idle" not called, "flag" after
\* `self.cancelled = True`, "done".  since_lines and since_progress count the
\* lines handled and the Progress events sent since the flag was set.
MaxLines == 3

NewAria2cDownloader ==
    [session_id |-> "s1", cancelled |-> FALSE, process |-> FALSE,
     pc |-> "call", cpc |-> "idle",
     terminate_asked |-> FALSE, line |-> [summary |-> FALSE, percentage |-> 0],
     nlines |-> 0, last_progress_time |-> 0, return_code |-> -1,
     result |-> "none", pub |-> <<>>, since_lines |-> 0, since_progress |-> 0]

InitCancel ==
    /\ has_aria2c = TRUE
    /\ clock = 0
    /\ DownloadStatus = <<>>
    /\ queue = <<>>
    /\ workers = [w \in 1..MAX_WORKERS |-> 0]
    /\ jobs = <<>>
    /\ nsubmits = 0
    /\ probes = 0
    /\ resp = [code |-> 0, body |-> <<>>]
    /\ sio = NoClients
    /\ unit = NewAria2cDownloader

\* the downloader after send_progress, send_completion or send_error
Sent(u, payload) == [u EXCEPT !.pub = Append(@, Pushed(payload))]

UnchangedButUnit ==
    UNCHANGED <<has_aria2c, clock, DownloadStatus, queue, workers, jobs, nsubmits,
                probes, resp, sio>>

UnchangedButUnitAndRegistry ==
    UNCHANGED <<has_aria2c, clock, queue, workers, jobs, nsubmits, probes, resp, sio>>

\* subprocess.Popen: the child runs, or the call raises and the except clause
\* of download() sends the error
download_popen ==
    /\ unit.pc = "call"
    /\ \E spawned \in BOOLEAN :
         IF spawned
         THEN /\ unit' = [unit EXCEPT !.process = TRUE, !.pc = "check"]
              /\ UNCHANGED DownloadStatus
         ELSE /\ unit' = [Sent(unit, send_error("aria2c exception")) EXCEPT
                             !.pc = "returned", !.result = "false"]
              /\ DownloadStatus' = Written(unit.session_id, send_error("aria2c exception"))
    /\ UnchangedButUnitAndRegistry

\* a read loop that never looks at the flag
LoopHead_NoCheck(u) == [u EXCEPT !.pc = "read"]

\* the head of the read loop: terminate and break when cancelled, else go on
\* to readline
LoopHead(u) ==
    IF u.cancelled
    THEN [u EXCEPT !.terminate_asked = @ \/ u.process, !.pc = "wait"]
    ELSE [u EXCEPT !.pc = "read"]

\* `if self.cancelled:` at the head of the read loop
download_check_cancelled ==
    /\ unit.pc = "check"
    /\ unit' = LoopHead(unit)
    /\ UnchangedButUnit

\* self.process.stdout.readline() returns a line, or "" at the end of the
\* output
download_readline ==
    /\ unit.pc = "read"
    /\ \/ \E line \in Lines :
            /\ unit.nlines < MaxLines
            /\ unit' = [unit EXCEPT !.line = line, !.nlines = @ + 1, !.pc = "line"]
       \/ unit' = [unit EXCEPT !.pc = "wait"]
    /\ UnchangedButUnit

\* the rest of the loop body: parse the line, send its progress unless
\* throttled
download_line ==
    /\ unit.pc = "line"
    /\ LET sends == /\ unit.line.summary
                    /\ clock - unit.last_progress_time >= aria2c_throttle
           counted == [unit EXCEPT !.pc = "check",
                          !.since_lines = IF unit.cancelled THEN @ + 1 ELSE @]
       IN  IF sends
           THEN /\ unit' = [Sent(counted, send_progress(unit.line)) EXCEPT
                               !.last_progress_time = clock,
                               !.since_progress = IF unit.cancelled THEN @ + 1 ELSE @]
                /\ DownloadStatus' = Written(unit.session_id, send_progress(unit.line))
           ELSE /\ unit' = counted
                /\ UNCHANGED DownloadStatus
    /\ UnchangedButUnitAndRegistry

\* self.process.wait() returns the exit code
download_wait(return_code) ==
    /\ unit.pc = "wait"
    /\ unit' = [unit EXCEPT !.return_code = return_code, !.pc = "code"]
    /\ UnchangedButUnit

\* `if return_code == 0 and not self.cancelled:`
ExitTest(return_code, cancelled) == return_code = 0 /\ ~cancelled

\* the test of the exit code; in its else branch the error unless cancelled
download_exit_code ==
    /\ unit.pc = "code"
    /\ IF ExitTest(unit.return_code, unit.cancelled)
       THEN /\ unit' = [unit EXCEPT !.pc = "exists"]
            /\ UNCHANGED DownloadStatus
       ELSE IF ~unit.cancelled
       THEN /\ unit' = [Sent(unit, send_error("aria2c exit code")) EXCEPT
                           !.pc = "returned", !.result = "false"]
            /\ DownloadStatus' = Written(unit.session_id, send_error("aria2c exit code"))
       ELSE /\ unit' = [unit EXCEPT !.pc = "returned", !.result = "false"]
            /\ UNCHANGED DownloadStatus
    /\ UnchangedButUnitAndRegistry

\* os.path.exists(output_file), then send_completion and True, or send_error
\* and False
download_report(exists) ==
    /\ unit.pc = "exists"
    /\ LET payload == ExitEvent(FileName("clip", TRUE, "mp4"), unit.return_code, exists)
       IN  /\ unit' = [Sent(unit, payload) EXCEPT
                          !.pc = "returned",
                          !.result = IF exists THEN "true" ELSE "false"]
           /\ DownloadStatus' = Written(unit.session_id, payload)
    /\ UnchangedButUnitAndRegistry

\* cancel(): self.cancelled = True
cancel_flag ==
    /\ unit.cpc = "idle"
    /\ unit' = [unit EXCEPT !.cancelled = TRUE, !.cpc = "flag"]
    /\ UnchangedButUnit

\* cancel(): if self.process: self.process.terminate()
cancel_terminate ==
    /\ unit.cpc = "flag"
    /\ unit' = [unit EXCEPT !.terminate_asked = @ \/ unit.process, !.cpc = "done"]
    /\ UnchangedButUnit

CancelNext ==
    \/ download_popen
    \/ download_check_cancelled
    \/ download_readline
    \/ download_line
    \/ \E return_code \in {0, 1} : download_wait(return_code)
    \/ download_exit_code
    \/ \E exists \in BOOLEAN : download_report(exists)
    \/ cancel_flag
    \/ cancel_terminate
    \/ \E d \in TickSteps : Tick(d)

SpecCancel == InitCancel /\ [][CancelNext]_vars

\* ------------- specification of one emission against one join, step by step
\* One task of session "s1" emits events, through its reporter (_emit) or
\* through Aria2cDownloader.send_*; each emission is two steps, the write of
\* DownloadStatus and socketio.emit to the room.  Client "c1" sends
\* join_session once; on_join is three steps: join_room, DownloadStatus.get,
\* emit.  unit.wpc and unit.jpc are the places of the two threads.  Every
\* payload carries in seq its number in the order of production, and
\* unit.pub is what was emitted to the room.
MaxEmits == 3

\* payloads the task hands over
EmitPayloads ==
    {[status |-> "starting"],
     [status |-> "downloading", percentage |-> 500],
     [status |-> "finished", percentage |-> PercentDone]}

InitJoin ==
    /\ has_aria2c = TRUE
    /\ clock = 0
    /\ DownloadStatus = <<>>
    /\ queue = <<>>
    /\ workers = [w \in 1..MAX_WORKERS |-> 0]
    /\ jobs = <<>>
    /\ nsubmits = 0
    /\ probes = 0
    /\ resp = [code |-> 0, body |-> <<>>]
    /\ sio = NoClients
    /\ unit = [progress |-> NewReporter("s1", "ytdlp"), wpc |-> "idle", jpc |-> "idle",
               produced |-> 0, pending |-> <<>>, current |-> <<>>, pub |-> <<>>]

UnchangedButUnitAndSio ==
    UNCHANGED <<has_aria2c, clock, DownloadStatus, queue, workers, jobs, nsubmits,
                probes, resp>>

\* an emission whose first step leaves the registry alone
emit_write_NoWrite(payload) ==
    /\ unit.wpc = "idle"
    /\ unit.produced < MaxEmits
    /\ LET res == DownloadProgress_emit(unit.progress,
                      Put(payload, "seq", unit.produced + 1), clock)
       IN  /\ unit' = [unit EXCEPT !.progress = res.progress,
                                   !.produced = @ + 1,
                                   !.pending = IF res.sent THEN res.payload ELSE <<>>,
                                   !.wpc = IF res.sent THEN "written" ELSE "idle"]
           /\ UNCHANGED DownloadStatus
    /\ UNCHANGED <<has_aria2c, clock, queue, workers, jobs, nsubmits, probes, resp, sio>>

\* _emit up to and with DownloadStatus[self.session_id] = payload; a
\* throttled call returns at once
emit_write(payload) ==
    /\ unit.wpc = "idle"
    /\ unit.produced < MaxEmits
    /\ LET res == DownloadProgress_emit(unit.progress,
                      Put(payload, "seq", unit.produced + 1), clock)
       IN  /\ unit' = [unit EXCEPT !.progress = res.progress,
                                   !.produced = @ + 1,
                                   !.pending = IF res.sent THEN res.payload ELSE <<>>,
                                   !.wpc = IF res.sent THEN "written" ELSE "idle"]
           /\ DownloadStatus' = WrittenIf(unit.progress.session_id, res)
    /\ UNCHANGED <<has_aria2c, clock, queue, workers, jobs, nsubmits, probes, resp, sio>>

\* send_progress, send_completion or send_error up to and with
\* DownloadStatus[self.session_id] = payload
send_write(payload) ==
    /\ unit.wpc = "idle"
    /\ unit.produced < MaxEmits
    /\ LET numbered == Put(Put(payload, "downloader", "aria2c"), "seq", unit.produced + 1)
       IN  /\ unit' = [unit EXCEPT !.produced = @ + 1, !.pending = numbered,
                                   !.wpc = "written"]
           /\ DownloadStatus' = Written(unit.progress.session_id, numbered)
    /\ UNCHANGED <<has_aria2c, clock, queue, workers, jobs, nsubmits, probes, resp, sio>>

\* socketio.emit("download_progress", payload, room=session_id): every client
\* in the room is sent the payload
emit_publish ==
    /\ unit.wpc = "written"
    /\ sio' = [sio EXCEPT !.sent =
                  [c \in Clients |-> IF unit.progress.session_id \in sio.rooms[c]
                                     THEN Append(sio.sent[c], unit.pending)
                                     ELSE sio.sent[c]]]
    /\ unit' = [unit EXCEPT !.pub = Append(@, unit.pending), !.pending = <<>>,
                            !.wpc = "idle"]
    /\ UnchangedButUnitAndSio

\* on_join: join_room(session_id)
on_join_room(c, session_id) ==
    /\ unit.jpc = "idle"
    /\ sio' = [sio EXCEPT !.rooms[c] = @ \cup {session_id}]
    /\ unit' = [unit EXCEPT !.jpc = "joined"]
    /\ UnchangedButUnitAndSio

\* on_join: current = DownloadStatus.get(session_id)
on_join_get(session_id) ==
    /\ unit.jpc = "joined"
    /\ unit' = [unit EXCEPT !.current = Get(DownloadStatus, session_id, <<>>),
                            !.jpc = "read"]
    /\ UNCHANGED sio
    /\ UnchangedButUnitAndSio

\* on_join: if current: emit("download_progress", current)
on_join_emit(c) ==
    /\ unit.jpc = "read"
    /\ sio' = IF unit.current # <<>>
              THEN [sio EXCEPT !.sent[c] = Append(@, unit.current)]
              ELSE sio
    /\ unit' = [unit EXCEPT !.jpc = "done"]
    /\ UnchangedButUnitAndSio

JoinNext ==
    \/ \E payload \in EmitPayloads : emit_write(payload)
    \/ \E payload \in EmitPayloads : send_write(payload)
    \/ emit_publish
    \/ on_join_room("c1", "s1")
    \/ on_join_get("s1")
    \/ on_join_emit("c1")
    \/ \E d \in TickSteps : Tick(d)

SpecJoin == InitJoin /\ [][JoinNext]_vars

\* ========================================================== claims
Last(seq) == seq[Len(seq)]

Statuses(j) == [i \in DOMAIN jobs[j].pub |-> jobs[j].pub[i].status]

\* the job function of job j has returned or raised
Ended(j) == jobs[j].pc \in {"done", "raised"}

\* C1: every error raised while a dispatched job runs is caught at the job
\* boundary and becomes an "error" event that is written to the registry and
\* pushed to the session's room; no exception escapes download_media.  (As
\* claimed; the job of a request without a "type" key refutes it.)
C1_EveryErrorBecomesFailedEvent ==
    \A j \in JobIds :
        (Ended(j) /\ ~jobs[j].success) =>
            /\ jobs[j].pc = "done"
            /\ jobs[j].pub # <<>>
            /\ Last(jobs[j].pub).status = "error"
            /\ jobs[j].session_id \in DOMAIN DownloadStatus
            /\ DownloadStatus[jobs[j].session_id]["status"] = "error"

\* job j was submitted with the accelerator requested and the probe failing
Downgraded(j) == jobs[j].requested = "aria2c" /\ ~jobs[j].probe_ok

\* C2: a request for the accelerator whose probe reports it unavailable is
\* accepted, its job carries the embedded backend, and the job never spawns
\* the accelerator, neither in direct mode nor as external downloader.
C2_DowngradedJobNeverSpawnsAccelerator ==
    \A j \in JobIds :
        Downgraded(j) =>
            /\ resp.code = 200
            /\ Get(jobs[j].opts, "downloader", "ytdlp") = "ytdlp"
            /\ jobs[j].aria2c = "none"
            /\ jobs[j].external_downloader = None
            /\ jobs[j].pc \notin {"aria2c_extract", "aria2c_read"}

\* C2 witness: with the executable installed, a downgraded job ran to success.
C2_Witness ==
    \E j \in JobIds :
        has_aria2c /\ Downgraded(j) /\ jobs[j].pc = "done" /\ jobs[j].success

\* the job the latest accepted call of api_download has enqueued
LastJob == jobs[Len(jobs)]

BackendName(downloader) ==
    IF downloader = "aria2c" THEN "aria2c accelerator" ELSE "yt-dlp optimized"

FailsValidation(data) ==
    \/ Strip(Get(data, "url", "")) = ""
    \/ UrlScheme(Strip(Get(data, "url", ""))) = ""
    \/ UrlNetloc(Strip(Get(data, "url", ""))) = ""
    \/ Get(data, "type", "video") \notin {"video", "audio"}
    \/ Get(data, "downloader", "ytdlp") \notin {"ytdlp", "aria2c"}
    \/ Get(data, "session_id", None) \in {None, ""}

\* C4: a request that fails validation is rejected at once: the call enqueues
\* no job, does not run the accelerator probe and leaves the registry as it
\* was.
C4_RejectedRequestLeavesNoTrace ==
    [][\A data \in Requests :
          (FailsValidation(data) /\ api_download(data)) =>
              /\ resp'.code = 400
              /\ UNCHANGED <<queue, jobs, workers, probes, DownloadStatus>>]_vars

\* C4 witness: a request was rejected after a job had been accepted and had
\* written an event to the registry.
C4_Witness ==
    /\ resp.code = 400
    /\ jobs # <<>>
    /\ probes > 0
    /\ DownloadStatus # <<>>

\* job j is a video job of the embedded backend whose ydl.download returned
SuccessfulEmbeddedVideo(j) ==
    /\ jobs[j].pc = "done"
    /\ jobs[j].success
    /\ jobs[j].aria2c = "none"
    /\ Get(jobs[j].opts, "downloader", "ytdlp") = "ytdlp"
    /\ Get(jobs[j].opts, "type", None) = "video"

\* the number of events of the given status job j has published
Count(j, status) == Cardinality({i \in DOMAIN jobs[j].pub : jobs[j].pub[i].status = status})

ProgressPercents(j) ==
    LET idx == {i \in DOMAIN jobs[j].pub : jobs[j].pub[i].status = "downloading"}
    IN  [i \in idx |-> jobs[j].pub[i].percentage]

\* C6: within the events of one job, the percentages of the published
\* Progress events never decrease, whatever payloads the backend delivers.
\* (As claimed; a payload with a smaller ratio than its predecessor's, as
\* the first payload of a second file is, refutes it.)
C6_PercentNeverDecreases ==
    \A j \in JobIds :
        \A i1, i2 \in DOMAIN ProgressPercents(j) :
            i1 < i2 => ProgressPercents(j)[i1] <= ProgressPercents(j)[i2]

\* C7: every published Progress event, of the embedded and of the accelerator
\* path, has a percentage of at least 0 and below 100, whatever the backend
\* reports; percentage 100 appears in Completed events only.
C7_ProgressBelowHundred ==
    /\ \A j \in JobIds : \A i \in DOMAIN jobs[j].pub :
           /\ jobs[j].pub[i].status = "downloading" =>
                  0 <= jobs[j].pub[i].percentage /\ jobs[j].pub[i].percentage <= PercentCap
           /\ jobs[j].pub[i].percentage >= PercentDone =>
                  jobs[j].pub[i].status = "finished"
    /\ \A s \in DOMAIN DownloadStatus :
           /\ DownloadStatus[s]["status"] = "downloading" =>
                  0 <= DownloadStatus[s]["percentage"]
                  /\ DownloadStatus[s]["percentage"] <= PercentCap
           /\ Get(DownloadStatus[s], "percentage", 0) >= PercentDone =>
                  DownloadStatus[s]["status"] = "finished"

\* C7 witness: a job has published a Progress event at the cap, 99.9, and a
\* Completed event at 100 after it.
C7_Witness ==
    \E j \in JobIds : \E i1, i2 \in DOMAIN jobs[j].pub :
        /\ i1 < i2
        /\ jobs[j].pub[i1] = [status |-> "downloading", percentage |-> PercentCap]
        /\ jobs[j].pub[i2] = [status |-> "finished", percentage |-> PercentDone]

\* the calls of _emit that went out
SentCalls == {i \in DOMAIN unit.calls : unit.calls[i].sent}

\* the clock reading of the reporter's last emission
LastSentAt ==
    unit.calls[CHOOSE i \in SentCalls : \A k \in SentCalls : k <= i].at

\* the reporter is handed a payload that does not go out
Suppressed ==
    /\ ~Last(unit'.calls).sent
    /\ unit'.pub = unit.pub
    /\ DownloadStatus' = DownloadStatus
    /\ unit'.progress.last_emit = unit.progress.last_emit

\* the reporter is handed a payload that goes out
Emitted(payload) ==
    /\ Last(unit'.calls).sent
    /\ unit'.pub = Append(unit.pub, Put(payload, "downloader", unit.progress.downloader_type))
    /\ DownloadStatus' = Put(DownloadStatus, unit.progress.session_id, Last(unit'.pub))
    /\ unit'.progress.last_emit = clock

\* C8: a Progress event handed to a reporter that has emitted before is
\* suppressed exactly when the time since the reporter's last emission is
\* strictly below the threshold; a suppressed event is not pushed, leaves the
\* registry and the last-emit timestamp as they were, and an event at exactly
\* the threshold goes out.
C8_SuppressedIffBelowThreshold ==
    [][\A payload \in UnitPayloads :
          (payload["status"] = "downloading" /\ SentCalls # {} /\ unit_emit(payload)) =>
              IF clock - LastSentAt < progress_throttle
              THEN Suppressed
              ELSE Emitted(payload)]_vars

\* C8 witness: after an emission, one Progress event below the threshold was
\* suppressed and one at exactly the threshold went out.
C8_Witness ==
    \E i, k, m \in DOMAIN unit.calls :
        /\ i < k /\ k < m
        /\ unit.calls[i].sent
        /\ \A n \in DOMAIN unit.calls : (i < n /\ n < m) => ~unit.calls[n].sent
        /\ unit.calls[k].status = "downloading"
        /\ unit.calls[m].status = "downloading"
        /\ unit.calls[m].sent
        /\ unit.calls[m].at = unit.calls[i].at + progress_throttle

\* the calls so far are Progress events at the given clock readings
ProgressCallsAt(times) ==
    /\ Len(unit.calls) = Len(times)
    /\ \A i \in DOMAIN times :
           unit.calls[i].status = "downloading" /\ unit.calls[i].at = times[i]

\* C9: the first Progress event handed to a fresh reporter goes out whatever
\* the clock reads, and of four Progress events at 0, 0.03, 0.07 and 0.12
\* exactly the first and the last go out.  (As claimed; a fresh reporter whose
\* clock reads less than the threshold refutes it.)
C9_FirstProgressAlwaysPublished ==
    /\ (unit.calls # <<>> /\ unit.calls[1].status = "downloading") => unit.calls[1].sent
    /\ ProgressCallsAt(<<0, 3, 7, 12>>) =>
           /\ SentCalls = {1, 4}
           /\ Len(unit.pub) = 2

FailedWithoutAccelerator(j) ==
    /\ jobs[j].pc = "done"
    /\ jobs[j].aria2c = "none"
    /\ ~jobs[j].success
    /\ jobs[j].pub # <<>>
    /\ Last(jobs[j].pub).status = "error"
    /\ Count(j, "starting") = 0

\* C11 as claimed: when no listed format has an http(s) url, the job fails
\* with an error event and spawns no accelerator process, whatever else the
\* extraction result holds.
C11_NoHttpCandidateFails ==
    \A j \in JobIds :
        (jobs[j].extracted.done /\ ~jobs[j].extracted.any_http) =>
            FailedWithoutAccelerator(j)

\* C11 amended: when no listed format has an http(s) url and the top-level
\* url of the extraction result is not an http(s) url either, the job fails
\* with an error event and spawns no accelerator process; with an http(s)
\* top-level url the job transfers that url.
C11_NoHttpUrlAtAllFails ==
    \A j \in JobIds :
        (jobs[j].extracted.done /\ ~jobs[j].extracted.any_http) =>
            IF IsHttpUrl(jobs[j].extracted.url)
            THEN jobs[j].extracted.download_url = jobs[j].extracted.url
            ELSE FailedWithoutAccelerator(j)

\* C11 witness: a job has failed on an extraction result whose formats and
\* top-level url are all without http(s).
C11_Witness ==
    \E j \in JobIds :
        /\ jobs[j].extracted.done
        /\ ~jobs[j].extracted.any_http
        /\ jobs[j].extracted.url = "rtmp://cdn/direct"
        /\ FailedWithoutAccelerator(j)

\* what the token stands for: the integer part of number * 1024^k when the
\* token is a decimal number followed by one of the five binary units, and
\* 0 for every other token
TokenValue(size_str) ==
    LET fits == {i \in DOMAIN units :
                    /\ EndsWith(size_str, units[i].unit)
                    /\ ParseFloat(SubSeq(size_str, 1,
                                         Len(size_str) - Len(units[i].unit))).ok}
    IN  IF fits = {} THEN Bytes(0)
        ELSE LET i == CHOOSE i \in fits : TRUE
                 number == ParseFloat(SubSeq(size_str, 1,
                                             Len(size_str) - Len(units[i].unit)))
             IN  Scaled(number.digits, number.decimals, units[i].k)

\* C12: parse_size gives the integer part of number * 1024^k for a token
\* made of a decimal number and a binary unit, so 1572864 for "1.5MiB" and
\* 262144 for "256KiB", and 0 for the empty token and for unknown suffixes.
\* (As claimed; every token with a unit other than B refutes it.)
C12_ParseSizeBinaryUnits ==
    unit.returned =>
        /\ unit.bytes = TokenValue(unit.size_str)
        /\ unit.size_str = <<"1", ".", "5", "M", "i", "B">> => unit.bytes = Bytes(1572864)
        /\ unit.size_str = <<"2", "5", "6", "K", "i", "B">> => unit.bytes = Bytes(262144)

\* the jobs that have written an event for session_id
Writers(session_id) ==
    {j \in JobIds : jobs[j].session_id = session_id /\ jobs[j].pub # <<>>}

\* C13: a status query reads the registry and changes nothing: it answers
\* not_found exactly when no event was ever written for the session, and
\* the latest event written for it otherwise; no step removes a session's
\* entry, so a query never answers not_found again once it has an entry.
C13_StatusQueryIsPureRead ==
    [][/\ DOMAIN DownloadStatus \subseteq DOMAIN DownloadStatus'
       /\ \A session_id \in {"s1", "s2"} :
              api_status(session_id) =>
                  /\ DownloadStatus' = DownloadStatus
                  /\ resp'.code = 200
                  /\ IF Writers(session_id) = {}
                     THEN resp'.body = [status |-> "not_found"]
                     ELSE /\ resp'.body["status"] # "not_found"
                          /\ \E j \in Writers(session_id) :
                                 Pushed(resp'.body) = Last(jobs[j].pub)]_vars

\* C13 witness: a query made after the job's second event has answered that
\* event.
C13_Witness ==
    \E j \in JobIds :
        /\ Len(jobs[j].pub) >= 2
        /\ "status" \in DOMAIN resp.body
        /\ resp.body = DownloadStatus[jobs[j].session_id]
        /\ Pushed(resp.body) = Last(jobs[j].pub)

\* C15: a join sends the joining client the session's latest snapshot, once,
\* when the session has one; it sends nothing when the session has none or
\* the message holds no session_id, and it never changes the registry.
C15_JoinReplaysSnapshotOnce ==
    [][\A c \in Clients : \A data \in JoinMessages :
          on_join(c, data) =>
              /\ DownloadStatus' = DownloadStatus
              /\ LET session_id == Get(data, "session_id", None)
                 IN  IF Truthy(session_id) /\ Writers(session_id) # {}
                     THEN /\ Len(sio'.sent[c]) = Len(sio.sent[c]) + 1
                          /\ SubSeq(sio'.sent[c], 1, Len(sio.sent[c])) = sio.sent[c]
                          /\ \E j \in Writers(session_id) :
                                 Pushed(Last(sio'.sent[c])) = Last(jobs[j].pub)
                     ELSE sio'.sent[c] = sio.sent[c]]_vars

\* C15 witness: a client that joined the session while the job was
\* transferring was sent the Progress snapshot.
C15_Witness ==
    \E c \in Clients :
        /\ "s1" \in sio.rooms[c]
        /\ Len(sio.sent[c]) = 1
        /\ sio.sent[c][1]["status"] = "downloading"

\* the number of terminal events job j has published
Terminals(j) == Count(j, "finished") + Count(j, "error")

\* C14 as claimed: after the accelerator's output has ended, the adapter has
\* published exactly one terminal event, Completed for exit code 0 and
\* Failed for any other, and download() has returned true in the first case
\* and false in the second.
C14_ExitCodeDecidesTerminalEvent ==
    \A j \in JobIds :
        jobs[j].return_code >= 0 =>
            /\ Terminals(j) = 1
            /\ IF jobs[j].return_code = 0
               THEN Last(jobs[j].pub).status = "finished" /\ jobs[j].success
               ELSE Last(jobs[j].pub).status = "error" /\ ~jobs[j].success

\* C14 amended: after the accelerator's output has ended, the adapter has
\* published exactly one terminal event: Completed when the exit code is 0
\* and the output file exists, Failed when the exit code is nonzero or the
\* file is missing; download() has returned true in the first case only.
C14_ExitCodeAndFileDecideTerminalEvent ==
    \A j \in JobIds :
        jobs[j].return_code >= 0 =>
            /\ Terminals(j) = 1
            /\ IF jobs[j].return_code = 0 /\ jobs[j].output_exists
               THEN Last(jobs[j].pub).status = "finished" /\ jobs[j].success
               ELSE Last(jobs[j].pub).status = "error" /\ ~jobs[j].success

\* C14 witness: the accelerator has exited with code 0 without leaving the
\* file, and the job has ended with a Failed event.
C14_Witness ==
    \E j \in JobIds :
        /\ jobs[j].return_code = 0
        /\ ~jobs[j].output_exists
        /\ Terminals(j) = 1
        /\ Last(jobs[j].pub).status = "error"
        /\ DownloadStatus[jobs[j].session_id]["status"] = "error"

\* job j is accounted for: waiting in the queue, run by a thread, or ended
Accounted(j) ==
    \/ jobs[j].pc = "queued" /\ \E i \in DOMAIN queue : queue[i] = j
    \/ jobs[j].pc \notin {"queued", "done", "raised"} /\ \E w \in DOMAIN workers : workers[w] = j
    \/ jobs[j].pc \in {"done", "raised"}

\* C16: api_download answers an accepted request while its job waits in the
\* queue; a job submitted while every thread is busy is queued, not
\* rejected; no accepted job is dropped; and every queued job starts to run
\* in the end, given that running jobs end and the pool is fair.
C16_QueuedJobsStart ==
    /\ [](\A j \in JobIds : Accounted(j))
    /\ [][\A data \in PoolRequests :
             api_download(data) =>
                 /\ resp'.code = 200
                 /\ Len(jobs') = Len(jobs) + 1
                 /\ jobs'[Len(jobs')].pc = "queued"
                 /\ queue' = Append(queue, Len(jobs'))]_vars
    /\ \A j \in 1..MaxPoolSubmits :
           (j \in JobIds /\ jobs[j].pc = "queued")
               ~> (j \in JobIds /\ jobs[j].pc # "queued")

\* C16 witness: a request was accepted while every thread ran a job, and its
\* job waits in the queue.
C16_Witness ==
    /\ \A w \in DOMAIN workers : workers[w] # 0 /\ jobs[workers[w]].pc = "ytdlp_download"
    /\ resp.code = 200
    /\ queue = <<Len(jobs)>>
    /\ jobs[Len(jobs)].pc = "queued"

\* C17: when ffmpeg is missing for an audio job whose format is not the
\* original one, the job is a hard failure: it publishes one event only, a
\* Failed event that tells to install ffmpeg or to choose the original
\* format, no Starting event, and it extracts and transfers nothing.
C17_MissingFfmpegIsHardFailure ==
    \A j \in JobIds :
        /\ jobs[j].ffmpeg = "missing" =>
               /\ jobs[j].opts["type"] = "audio"
               /\ Get(jobs[j].opts, "audio_format", "mp3") # "original"
               /\ jobs[j].pc = "done"
               /\ ~jobs[j].success
               /\ Statuses(j) = <<"error">>
               /\ DownloadStatus[jobs[j].session_id]["message"] = FfmpegMissing["message"]
               /\ jobs[j].external_downloader = None
               /\ ~jobs[j].extracted.done
               /\ jobs[j].aria2c = "none"
               /\ jobs[j].ncb = 0 /\ jobs[j].nfiles = 0
        /\ ( /\ jobs[j].pc \notin {"queued", "start", "raised"}
             /\ jobs[j].opts["type"] = "audio"
             /\ Get(jobs[j].opts, "audio_format", "mp3") # "original" ) =>
               jobs[j].ffmpeg # "unchecked"

\* C17 witness: an audio job asked for a format other than the original one
\* has ended on the missing ffmpeg.
C17_Witness ==
    \E j \in JobIds :
        /\ jobs[j].ffmpeg = "missing"
        /\ jobs[j].opts["audio_format"] = "mp3"
        /\ jobs[j].pc = "done"
        /\ Statuses(j) = <<"error">>

\* job j is run by a thread
Running(j) == \E w \in DOMAIN workers : workers[w] = j

\* C18: a request whose session_id is that of a job in flight is accepted
\* and dispatched like any other, so two jobs of one session may run at the
\* same time on two threads; the registry entry of the session is then the
\* latest event of one of them, whichever wrote last.
C18_SameSessionJobsRace ==
    /\ [][\A data \in PoolRequests :
             (api_download(data) /\ \E j \in JobIds : jobs[j].session_id = data["session_id"]
                                                     /\ jobs[j].pc \notin {"done", "raised"}) =>
                 /\ resp'.code = 200
                 /\ Len(jobs') = Len(jobs) + 1
                 /\ queue' = Append(queue, Len(jobs'))]_vars
    /\ [](\A session_id \in DOMAIN DownloadStatus :
              \E j \in Writers(session_id) :
                  Pushed(DownloadStatus[session_id]) = Last(jobs[j].pub))

\* C18 witness: two jobs of one session run on two threads; the job
\* submitted second has published Starting and Completed, and the registry
\* holds the Starting event that the job submitted first wrote after them.
C18_Witness ==
    \E j1, j2 \in JobIds :
        /\ j1 < j2
        /\ jobs[j1].session_id = jobs[j2].session_id
        /\ Running(j1) /\ Running(j2)
        /\ jobs[j1].pc = "ytdlp_download" /\ jobs[j2].pc = "ytdlp_download"
        /\ Statuses(j1) = <<"starting">>
        /\ Statuses(j2) = <<"starting", "finished">>
        /\ DownloadStatus[jobs[j1].session_id]["status"] = "starting"

\* the candidate passes the filters: an http(s) url, and the codecs of the
\* media type present and not "none"
Passes(fmt, dtype) ==
    /\ fmt.url \in {"https://cdn/a", "https://cdn/b", "https://cdn/c", "https://cdn/e",
                    "https://cdn/f"}
    /\ "acodec" \in DOMAIN fmt /\ fmt.acodec # "none"
    /\ dtype = "video" => "vcodec" \in DOMAIN fmt /\ fmt.vcodec # "none"

\* the score: height plus 1000 for mp4 (video), bitrate plus 100 for webm,
\* m4a and mp3 (audio)
Score(fmt, dtype) ==
    IF dtype = "video"
    THEN (IF "height" \in DOMAIN fmt THEN fmt.height ELSE 0)
         + (IF fmt.ext = "mp4" THEN 1000 ELSE 0)
    ELSE fmt.abr + (IF fmt.ext \in {"webm", "m4a", "mp3"} THEN 100 ELSE 0)

\* C19: the selection returns, among the candidates that pass the filters,
\* the earliest one of the list whose score is greatest, and none when no
\* candidate passes; a 480 mp4 beats a 720 webm.
C19_EarliestOfGreatestScore ==
    unit.returned =>
        LET fs == unit.formats
            passing == {i \in DOMAIN fs : Passes(fs[i], unit.dtype)}
        IN  /\ IF passing = {} THEN unit.selected = 0
               ELSE /\ unit.selected \in passing
                    /\ \A k \in passing :
                           /\ Score(fs[k], unit.dtype) <= Score(fs[unit.selected], unit.dtype)
                           /\ Score(fs[k], unit.dtype) = Score(fs[unit.selected], unit.dtype)
                                  => unit.selected <= k
            /\ ( /\ unit.dtype = "video" /\ Len(fs) = 2
                 /\ fs[1].ext = "webm" /\ fs[1].height = 720 /\ fs[1].url = "https://cdn/b"
                 /\ fs[2].ext = "mp4" /\ fs[2].height = 480 /\ fs[2].url = "https://cdn/a" )
                   => unit.selected = 2

\* C19 witness: of two mp4 candidates of one score the earlier was selected.
C19_Witness ==
    /\ unit.returned
    /\ unit.dtype = "video"
    /\ Len(unit.formats) = 2
    /\ unit.formats[1].url = "https://cdn/e"
    /\ unit.formats[2].url = "https://cdn/a"
    /\ unit.selected = 1

\* job j publishes a Progress event of the accelerator's output in this step
AcceleratorProgress(j) ==
    /\ jobs[j].aria2c = "direct"
    /\ Len(jobs'[j].pub) = Len(jobs[j].pub) + 1
    /\ Last(jobs'[j].pub).status = "downloading"

\* C20: a Progress event parsed from the accelerator's output is published
\* through the job's reporter: not before the reporter's last emission (the
\* Starting event) plus the reporter's threshold, and the reporter's
\* last-emit timestamp becomes the time of the publication.
C20_AcceleratorProgressThroughReporter ==
    [][\A j \in DOMAIN jobs :
          AcceleratorProgress(j) =>
              /\ clock >= jobs[j].progress.last_emit + progress_throttle
              /\ jobs'[j].progress.last_emit = clock]_vars

\* the effective backend of job j is the accelerator: it was requested and
\* the probe of the submission succeeded
AcceleratorBackend(j) == jobs[j].requested = "aria2c" /\ jobs[j].probe_ok

\* C21: the accelerator runs in direct mode exactly when the effective
\* backend is the accelerator and the request asks for the original format;
\* with the accelerator backend and a converted format it is only the
\* external downloader of the embedded backend; with the embedded backend it
\* is used in neither way.
C21_DirectModeIffAcceleratorAndOriginal ==
    \A j \in DOMAIN jobs :
        LET job == jobs[j]
        IN  "type" \in DOMAIN job.opts =>
              LET direct == AcceleratorBackend(j) /\ IsOriginal(job.opts)
                  helper == AcceleratorBackend(j) /\ ~IsOriginal(job.opts)
              IN  /\ job.called # "none" =>
                         (job.called = "download_with_aria2c" <=> direct)
                  /\ job.pc \in {"aria2c_extract", "aria2c_read"} => direct
                  /\ job.aria2c = "direct" => direct /\ job.external_downloader = None
                  /\ job.aria2c = "external" => helper
                  /\ job.external_downloader = "aria2c" => helper
                  /\ (helper /\ job.pc \in {"ytdlp_download", "ytdlp_file"}) =>
                         job.external_downloader = "aria2c" /\ job.aria2c = "external"
                  /\ ~AcceleratorBackend(j) =>
                         job.aria2c = "none" /\ job.external_downloader = None

\* C21 witness: a converted-format job of the accelerator backend has written
\* a file through the embedded backend, the accelerator being its external
\* downloader.
C21_Witness ==
    \E j \in DOMAIN jobs :
        /\ AcceleratorBackend(j)
        /\ "type" \in DOMAIN jobs[j].opts
        /\ ~IsOriginal(jobs[j].opts)
        /\ jobs[j].called = "download_with_ytdlp"
        /\ jobs[j].external_downloader = "aria2c"
        /\ jobs[j].nfiles >= 1

\* C22: after cancel() has set the flag, download() handles at most one
\* further output line and sends at most one further Progress event; then it
\* reads no more, and once it has left the loop and cancel() has returned
\* the child, if one was spawned, has been asked to terminate.
C22_CancelBoundedByOneLine ==
    /\ unit.since_lines <= 1
    /\ unit.since_progress <= 1
    /\ unit.since_lines = 1 => unit.pc \notin {"read", "line"}
    /\ ( /\ unit.cancelled /\ unit.cpc = "done" /\ unit.process
         /\ unit.pc \in {"wait", "code", "exists", "returned"} )
           => unit.terminate_asked

\* C22 witness: the flag was set while a summary line was in hand; the line
\* was handled and its Progress sent, and the loop ended at its next head.
C22_Witness ==
    /\ unit.cancelled
    /\ unit.since_lines = 1
    /\ unit.since_progress = 1
    /\ unit.pc = "wait"
    /\ unit.terminate_asked

\* the job function of job j has been called and has not returned
Executing(j) == jobs[j].pc \notin {"queued", "done", "raised"}

\* C23: at every moment at most MAX_WORKERS jobs execute, each of them on one
\* thread only and each thread with one job; a job that left the queue is
\* not in it again and its job function is entered once, from the queue.
C23_PoolBoundsExecution ==
    /\ [](Cardinality({j \in JobIds : Executing(j)}) <= MAX_WORKERS)
    /\ [](\A j \in JobIds :
             /\ Executing(j) => Cardinality({w \in DOMAIN workers : workers[w] = j}) = 1
             /\ ~Executing(j) => \A w \in DOMAIN workers : workers[w] # j
             /\ Cardinality({i \in DOMAIN queue : queue[i] = j})
                    = (IF jobs[j].pc = "queued" THEN 1 ELSE 0))
    /\ [][\A j \in JobIds :
             /\ (jobs'[j].pc = "start" /\ jobs[j].pc # "start") => jobs[j].pc = "queued"
             /\ jobs[j].pc # "queued" => jobs'[j].pc # "queued"]_vars

\* C23 witness: as many jobs execute as there are threads, one more waits,
\* and none has ended yet.
C23_Witness ==
    /\ Cardinality({j \in JobIds : Executing(j)}) = MAX_WORKERS
    /\ queue # <<>>
    /\ \A j \in JobIds : jobs[j].pc \notin {"done", "raised"}

\* C24: the is_original flag of a Completed event is true exactly when the
\* job ran in the original-format mode: such a job's file name carries the
\* "[original]" marker of the output template, and a converted job's file is
\* never reported as original, whatever the title of the media is.
C24_OriginalFlagIffOriginalMode ==
    \A j \in JobIds :
        LET s == jobs[j].session_id
        IN  (s \in DOMAIN DownloadStatus /\ DownloadStatus[s]["status"] = "finished") =>
                /\ DownloadStatus[s]["is_original"] <=> IsOriginal(jobs[j].opts)
                /\ IsOriginal(jobs[j].opts) => DownloadStatus[s]["filename"].marker

\* the numbers of the events of a sequence of payloads
Seqs(payloads) == [i \in DOMAIN payloads |-> payloads[i]["seq"]]

\* C25: with one task in the session, an event is in the registry before it
\* is emitted to the room, events are emitted in the order of their
\* production, and whenever the task is not within an emission the registry
\* entry is the last event emitted to the room.
C25_RegistryIsLastPublished ==
    LET s == unit.progress.session_id
    IN  /\ \A i, k \in DOMAIN unit.pub : i < k => unit.pub[i]["seq"] < unit.pub[k]["seq"]
        /\ unit.pub # <<>> =>
               /\ s \in DOMAIN DownloadStatus
               /\ DownloadStatus[s]["seq"] >= Last(unit.pub)["seq"]
        /\ unit.wpc = "written" =>
               s \in DOMAIN DownloadStatus /\ DownloadStatus[s] = unit.pending
        /\ unit.wpc = "idle" =>
               IF unit.pub = <<>> THEN s \notin DOMAIN DownloadStatus
               ELSE DownloadStatus[s] = Last(unit.pub)

\* C25 witness: three events were emitted to the room, one of them by the
\* accelerator's own sender, and the registry holds the third.
C25_Witness ==
    /\ unit.wpc = "idle"
    /\ Len(unit.pub) = 3
    /\ \E i \in DOMAIN unit.pub : unit.pub[i]["downloader"] = "aria2c"
    /\ DownloadStatus["s1"]["seq"] = 3

\* C26: a job publishes at most one terminal event, and it is its last event:
\* after Completed or Failed it publishes nothing more.
C26_TerminalEventIsLast ==
    \A j \in JobIds :
        \A i \in DOMAIN jobs[j].pub :
            jobs[j].pub[i].status \in {"finished", "error"} => i = Len(jobs[j].pub)

\* job j has published a terminal event and the registry has held it
TerminalPublished(j) ==
    /\ \E i \in DOMAIN jobs[j].pub : jobs[j].pub[i].status \in {"finished", "error"}
    /\ jobs[j].session_id \in DOMAIN DownloadStatus

\* C27: every job api_download has accepted publishes a Completed or a Failed
\* event in the end, written to the registry, on every path, given that the
\* calls of its collaborators return and its thread is scheduled.
C27_EveryJobEndsWithTerminalEvent ==
    \A j \in 1..MaxSubmits :
        (j \in JobIds) ~> (j \in JobIds /\ TerminalPublished(j))

\* C28: once cancel() has been called on a download, whatever the place of
\* download() at that moment, no Completed event is sent for it and
\* download() returns false.
C28_NoCompletedAfterCancel ==
    [][unit.cancelled =>
          /\ Len(unit'.pub) > Len(unit.pub) => Last(unit'.pub).status # "finished"
          /\ unit'.result # unit.result => unit'.result = "false"]_vars

\* C29: a client that joins a session while its task emits is never sent a
\* snapshot older than an event it has already been sent: the replay of
\* on_join does not arrive after a newer event of the session.
C29_ReplayNeverOlderThanReceived ==
    \A c \in Clients :
        \A i, k \in DOMAIN sio.sent[c] :
            i < k => sio.sent[c][i]["seq"] <= sio.sent[c][k]["seq"]

\* C30: the media kind of a Completed event is the kind of the request that
\* produced it, for every extension the download can give its file.
C30_CompletedKindIsRequestKind ==
    \A j \in JobIds :
        LET s == jobs[j].session_id
        IN  (s \in DOMAIN DownloadStatus /\ DownloadStatus[s]["status"] = "finished") =>
                DownloadStatus[s]["download_type"] = jobs[j].opts["type"]

=============================================================================
